---------------------------- MODULE Spec2Model ----------------------------
(***************************************************************************)
(* Model of the n-body simulation in src/src/main.rs: the softened         *)
(* pairwise force computation (update_accelerations), the kick-drift-kick  *)
(* main loop of main, the unused helper leapfrog_integrator and the        *)
(* periodic density-projection plots.                                      *)
(*                                                                         *)
(* Numbers.  An f64 is modelled by an integer of a unit lattice together   *)
(* with the three IEEE special values +Inf, -Inf and NaN.  Every           *)
(* arithmetic operation is the exact operation followed by rounding to     *)
(* the lattice (quotients and square roots are rounded toward zero) and    *)
(* by overflow to an infinity beyond F64Max; division by zero, 0 * Inf,    *)
(* Inf - Inf and the comparison of a NaN follow IEEE 754.  Sums and        *)
(* products of lattice values are therefore exact, which is the "exact     *)
(* arithmetic" reading of the kicks and drifts.                            *)
(*                                                                         *)
(* Units.  Lengths are counted in units of softening_factor (1.0e3 m),     *)
(* times in units of dt/2 (500 s) and masses in the unit that makes the    *)
(* gravitational constant 1, so that main's parameters are                 *)
(* softening_factor = 1, dt = 2 and G = 1.                                 *)
(***************************************************************************)
EXTENDS Integers, Sequences, FiniteSets

\* Largest number of bodies in the loaded body set.
MaxBodies == 2

\* Number of iterations of the main loop (time_steps of main, capped).
MaxSteps == 11

\* Largest number of steps of each leg of a forward/backward run.
MaxRevSteps == 2

-----------------------------------------------------------------------------
(* f64 *)

\* Largest finite value; results beyond it overflow to an infinity.
F64Max == 30000

PosInf == F64Max + 1
NegInf == 0 - (F64Max + 1)
NaN == F64Max + 2

IsNaN(a) == a = NaN
IsInf(a) == a = PosInf \/ a = NegInf
IsFinite(a) == ~IsNaN(a) /\ ~IsInf(a)

Sgn(a) == IF a > 0 THEN 1 ELSE IF a < 0 THEN -1 ELSE 0

Abs(a) == IF a < 0 THEN 0 - a ELSE a

\* The sign of an infinite or finite value, +0 counting as positive.
SgnZ(a) == IF a < 0 THEN -1 ELSE 1

SignedInf(s) == IF s < 0 THEN NegInf ELSE PosInf

\* Overflow of an exact finite result.
Round(x) == IF x > F64Max THEN PosInf ELSE IF x < 0 - F64Max THEN NegInf ELSE x

FNeg(a) == IF IsNaN(a) THEN NaN ELSE 0 - a

FAdd(a, b) ==
  IF IsNaN(a) \/ IsNaN(b) THEN NaN
  ELSE IF IsInf(a) /\ IsInf(b) THEN (IF a = b THEN a ELSE NaN)
  ELSE IF IsInf(a) THEN a
  ELSE IF IsInf(b) THEN b
  ELSE Round(a + b)

FSub(a, b) == FAdd(a, FNeg(b))

FMul(a, b) ==
  IF IsNaN(a) \/ IsNaN(b) THEN NaN
  ELSE IF IsInf(a) \/ IsInf(b)
       THEN (IF a = 0 \/ b = 0 THEN NaN ELSE SignedInf(Sgn(a) * Sgn(b)))
  ELSE Round(a * b)

\* Quotient of finite values rounded toward zero.
Quot(a, b) == Sgn(a) * Sgn(b) * (Abs(a) \div Abs(b))

FDiv(a, b) ==
  IF IsNaN(a) \/ IsNaN(b) THEN NaN
  ELSE IF IsInf(a) /\ IsInf(b) THEN NaN
  ELSE IF IsInf(a) THEN SignedInf(Sgn(a) * SgnZ(b))
  ELSE IF IsInf(b) THEN 0
  ELSE IF b = 0 THEN (IF a = 0 THEN NaN ELSE SignedInf(Sgn(a)))
  ELSE Quot(a, b)

RECURSIVE ISqrt(_, _)
\* The largest r >= from with r * r <= n.
ISqrt(n, from) == IF (from + 1) * (from + 1) > n THEN from ELSE ISqrt(n, from + 1)

FSqrt(a) ==
  IF IsNaN(a) \/ a < 0 THEN NaN
  ELSE IF IsInf(a) THEN PosInf
  ELSE ISqrt(a, 0)

\* ==; a NaN equals nothing, itself included.
FEq(a, b) == ~IsNaN(a) /\ ~IsNaN(b) /\ a = b

-----------------------------------------------------------------------------
(* glam::DVec3 *)

ZERO == <<0, 0, 0>>

VAdd(u, v) == <<FAdd(u[1], v[1]), FAdd(u[2], v[2]), FAdd(u[3], v[3])>>

VSub(u, v) == <<FSub(u[1], v[1]), FSub(u[2], v[2]), FSub(u[3], v[3])>>

VScale(u, s) == <<FMul(u[1], s), FMul(u[2], s), FMul(u[3], s)>>

VEq(u, v) == FEq(u[1], v[1]) /\ FEq(u[2], v[2]) /\ FEq(u[3], v[3])

length_squared(u) ==
  FAdd(FAdd(FMul(u[1], u[1]), FMul(u[2], u[2])), FMul(u[3], u[3]))

length(u) == FSqrt(length_squared(u))

\* u / |u|, each component divided by the length.
normalize(u) ==
  <<FDiv(u[1], length(u)), FDiv(u[2], length(u)), FDiv(u[3], length(u))>>

VFinite(u) == IsFinite(u[1]) /\ IsFinite(u[2]) /\ IsFinite(u[3])

-----------------------------------------------------------------------------
(* Parameters and inputs *)

\* Gravitational constant, in the model's units.
G == 1

\* Plot every plot_interval steps.
plot_interval == 10

\* The bodies a particles.json file may hold: mass, position, velocity.
InputBodies ==
  { [mass |-> 8, position |-> <<0, 0, 0>>, velocity |-> <<0, 0, 0>>],
    [mass |-> 4, position |-> <<1, 0, 0>>, velocity |-> <<0, 1, 0>>],
    [mass |-> 8, position |-> <<0, 0, 2>>, velocity |-> <<-1, 0, 0>>],
    [mass |-> 4, position |-> <<0, 0, 0>>, velocity |-> <<1, 0, 0>>] }

\* Body::new and deserialization: the skipped acceleration field is zero.
Body(b) ==
  [mass |-> b.mass, position |-> b.position, velocity |-> b.velocity,
   acceleration |-> ZERO]

\* The body sets read from the input file: any sequence of input bodies.
LoadedBodySets ==
  UNION { [1..n -> {Body(b) : b \in InputBodies}] : n \in 0..MaxBodies }

\* Accelerations a body may carry into a call of update_accelerations.
StaleAccelerations == {ZERO, <<3, 0, -1>>}

\* The body sets update_accelerations may be called on.
AnyBodySets ==
  UNION { [1..n -> { [Body(b) EXCEPT !.acceleration = a] :
                       b \in InputBodies, a \in StaleAccelerations }] :
          n \in 0..MaxBodies }

-----------------------------------------------------------------------------
(* update_accelerations *)

\* softening_factor * softening_factor.
softening_sq(eps) == FMul(eps, eps)

\* The (position, mass) copies collected before the parallel loop.
Snapshot(bs) == [k \in 1..Len(bs) |-> <<bs[k].position, bs[k].mass>>]

\* Mutant: no entry is ever skipped.
SamePositionNever(position_i, pos_j) == FALSE

\* Mutant: only the x coordinates are compared.
SamePositionX(position_i, pos_j) == FEq(position_i[1], pos_j[1])

\* The test that skips an entry: exact equality of the two positions.
SamePosition(position_i, pos_j) == VEq(position_i, pos_j)

\* What one entry adds to total_acceleration when it is not skipped.
Contribution(position_i, pos_j, mass_j, ssq) ==
  LET direction == VSub(pos_j, position_i)
      distance_sq == length_squared(direction)
      force_magnitude == FDiv(FMul(G, mass_j), FAdd(distance_sq, ssq))
  IN  VScale(normalize(direction), force_magnitude)

RECURSIVE total_acceleration(_, _, _, _)
\* The inner loop over the first n entries of the snapshot, in order.
total_acceleration(position_i, pm, n, ssq) ==
  IF n = 0 THEN ZERO
  ELSE LET sofar == total_acceleration(position_i, pm, n - 1, ssq)
       IN  IF SamePosition(position_i, pm[n][1]) THEN sofar
           ELSE VAdd(sofar, Contribution(position_i, pm[n][1], pm[n][2], ssq))

\* Mutant: the sum starts from the body's previous acceleration.
for_each_body_accumulate(body_i, pm, ssq) ==
  [body_i EXCEPT
     !.acceleration =
        VAdd(body_i.acceleration,
             total_acceleration(body_i.position, pm, Len(pm), ssq))]

\* The closure run for one body: its acceleration is overwritten.
for_each_body(body_i, pm, ssq) ==
  [body_i EXCEPT
     !.acceleration = total_acceleration(body_i.position, pm, Len(pm), ssq)]

\* The result of a whole call.
update_accelerations(bs, eps) ==
  [k \in 1..Len(bs) |-> for_each_body(bs[k], Snapshot(bs), softening_sq(eps))]

-----------------------------------------------------------------------------
(* The phases of a step *)

\* velocity += acceleration * (dt / 2.0), for every body.
Kick(bs, h) ==
  [k \in 1..Len(bs) |->
     [bs[k] EXCEPT
        !.velocity = VAdd(bs[k].velocity, VScale(bs[k].acceleration, FDiv(h, 2)))]]

\* position += velocity * dt, for every body.
DriftAll(bs, h) ==
  [k \in 1..Len(bs) |->
     [bs[k] EXCEPT !.position = VAdd(bs[k].position, VScale(bs[k].velocity, h))]]

\* Mutant: the drift comes before the half-kick.
leapfrog_drift_first(bs, h) == Kick(DriftAll(bs, h), h)

\* The helper leapfrog_integrator: the first half-kick, then the drift.
leapfrog_integrator(bs, h) == DriftAll(Kick(bs, h), h)

\* Mutant: the plotted steps are those before a multiple of plot_interval.
ShouldPlotOffByOne(n) == (n + 1) % plot_interval = 0

\* The plotting condition of the main loop.
ShouldPlot(n) == n % plot_interval = 0

-----------------------------------------------------------------------------
(* State *)

VARIABLES
  bodies,            \* main's Vec<Body>
  pc,                \* main's position
  i,                 \* the loop index
  time_steps,        \* main's time_steps
  dt,                \* main's dt
  softening_factor,  \* main's softening_factor
  ff,                \* "idle", or "running" inside update_accelerations
  positions_masses,  \* the snapshot of the running call
  done,              \* the bodies whose closure has run in the running call
  force_calls,       \* history: calls of update_accelerations so far
  phases,            \* history: the phases of the current step, in order
  step_start,        \* history: the body set when the current step began
  entry,             \* history: the body set when the last call began
  observed,          \* history: the plot calls made, in order
  lf,                \* the body set handed to leapfrog_integrator
  lf_for,            \* the step at whose start leapfrog_integrator was called
  leg,               \* "fwd" or "bwd": the leg of a forward/backward run
  initial            \* history: the loaded body set

vars ==
  <<bodies, pc, i, time_steps, dt, softening_factor, ff, positions_masses,
    done, force_calls, phases, step_start, entry, observed, lf, lf_for, leg,
    initial>>

params == <<time_steps, dt, softening_factor>>
harness == <<lf, lf_for, leg, initial>>

\* The state before the first call of update_accelerations, for a body set.
Start(bs, steps, eps) ==
  /\ bodies = bs
  /\ pc = "init_force"
  /\ i = 0
  /\ time_steps = steps
  /\ dt = 2
  /\ softening_factor = eps
  /\ ff = "idle"
  /\ positions_masses = <<>>
  /\ done = {}
  /\ force_calls = 0
  /\ phases = <<>>
  /\ step_start = bs
  /\ entry = bs
  /\ observed = <<>>
  /\ lf = bs
  /\ lf_for = -1
  /\ leg = "fwd"
  /\ initial = bs

\* main, after loading the bodies and before the initial force computation.
Init == \E bs \in LoadedBodySets : Start(bs, MaxSteps, 1)

\* Mutant: the loop runs one iteration too many.
LoopHeadOffByOne(n) == IF n <= time_steps THEN "kick1" ELSE "exit"

\* The loop head: the next iteration, or the end of the loop.
LoopHead(n) == IF n < time_steps THEN "kick1" ELSE "exit"

\* Entry of update_accelerations: the snapshot is taken, the workers fan out.
Call ==
  /\ ff = "idle"
  /\ ff' = "running"
  /\ positions_masses' = Snapshot(bodies)
  /\ done' = {}
  /\ entry' = bodies
  /\ force_calls' = force_calls + 1
  /\ UNCHANGED <<bodies, pc, i, params, phases, step_start, observed, harness>>

\* Mutant: the loop is entered without the initial force computation.
InitialForceSkipped ==
  /\ pc = "init_force"
  /\ ff = "idle"
  /\ force_calls = 0
  /\ pc' = IF 0 < time_steps THEN "kick1" ELSE "exit"
  /\ UNCHANGED <<bodies, i, params, ff, positions_masses, done, force_calls,
                 phases, step_start, entry, observed, harness>>

\* The initial force computation before the loop.
InitialForce == pc = "init_force" /\ Call

\* The force refresh of a step.
ForceRefresh == pc = "force" /\ Call

\* One worker runs the closure for body k.
Worker(k) ==
  /\ ff = "running"
  /\ k \in (1..Len(bodies)) \ done
  /\ bodies' = [bodies EXCEPT
                  ![k] = for_each_body(bodies[k], positions_masses,
                                       softening_sq(softening_factor))]
  /\ done' = done \cup {k}
  /\ UNCHANGED <<pc, i, params, ff, positions_masses, force_calls, phases,
                 step_start, entry, observed, harness>>

\* Mutant: the call returns without waiting for its workers.
JoinWithoutBarrier ==
  /\ ff = "running"
  /\ ff' = "idle"
  /\ pc' = IF pc = "init_force" THEN LoopHead(0) ELSE "kick2"
  /\ phases' = IF pc = "init_force" THEN phases ELSE Append(phases, "force")
  /\ UNCHANGED <<bodies, i, params, positions_masses, done, force_calls,
                 step_start, entry, observed, harness>>

\* The join at the end of the parallel loop: update_accelerations returns.
Join ==
  /\ ff = "running"
  /\ done = 1..Len(bodies)
  /\ ff' = "idle"
  /\ pc' = IF pc = "init_force" THEN LoopHead(0) ELSE "kick2"
  /\ phases' = IF pc = "init_force" THEN phases ELSE Append(phases, "force")
  /\ UNCHANGED <<bodies, i, params, positions_masses, done, force_calls,
                 step_start, entry, observed, harness>>

\* 1. Kick: the first half-kick.
Kick1 ==
  /\ pc = "kick1"
  /\ bodies' = Kick(bodies, dt)
  /\ pc' = "drift"
  /\ step_start' = bodies
  /\ phases' = <<"kick">>
  /\ UNCHANGED <<i, params, ff, positions_masses, done, force_calls, entry,
                 observed, harness>>

\* Mutant: the step goes from the drift straight to the second half-kick.
DriftSkipsRefresh ==
  /\ pc = "drift"
  /\ bodies' = DriftAll(bodies, dt)
  /\ pc' = "kick2"
  /\ phases' = Append(phases, "drift")
  /\ UNCHANGED <<i, params, ff, positions_masses, done, force_calls,
                 step_start, entry, observed, harness>>

\* 2. Drift.
Drift ==
  /\ pc = "drift"
  /\ bodies' = DriftAll(bodies, dt)
  /\ pc' = "force"
  /\ phases' = Append(phases, "drift")
  /\ UNCHANGED <<i, params, ff, positions_masses, done, force_calls,
                 step_start, entry, observed, harness>>

\* Mutant: the second kick is a full-step kick.
Kick2FullStep ==
  /\ pc = "kick2"
  /\ bodies' = Kick(bodies, FMul(dt, 2))
  /\ pc' = "observe"
  /\ phases' = Append(phases, "kick")
  /\ UNCHANGED <<i, params, ff, positions_masses, done, force_calls,
                 step_start, entry, observed, harness>>

\* 4. Kick: the second half-kick.
Kick2 ==
  /\ pc = "kick2"
  /\ bodies' = Kick(bodies, dt)
  /\ pc' = "observe"
  /\ phases' = Append(phases, "kick")
  /\ UNCHANGED <<i, params, ff, positions_masses, done, force_calls,
                 step_start, entry, observed, harness>>

\* One call of plot_density_projection; it returns Ok or an error.
Plot(at, axes, next) ==
  /\ pc = at
  /\ \E ok \in BOOLEAN :
       /\ observed' = Append(observed,
                        [step |-> i, axes |-> axes, snapshot |-> bodies, ok |-> ok])
       /\ pc' = IF ok THEN next ELSE "failed"
       /\ i' = IF ok /\ next = "inc" THEN i + 1 ELSE i

PlotXY ==
  /\ ShouldPlot(i)
  /\ Plot("observe", "xy", "plot_xz")
  /\ UNCHANGED <<bodies, params, ff, positions_masses, done, force_calls,
                 phases, step_start, entry, harness>>

PlotXZ ==
  /\ Plot("plot_xz", "xz", "plot_yz")
  /\ UNCHANGED <<bodies, params, ff, positions_masses, done, force_calls,
                 phases, step_start, entry, harness>>

PlotYZ ==
  /\ Plot("plot_yz", "yz", "inc")
  /\ UNCHANGED <<bodies, params, ff, positions_masses, done, force_calls,
                 phases, step_start, entry, harness>>

\* A step that is not plotted.
NoPlot ==
  /\ pc = "observe"
  /\ ~ShouldPlot(i)
  /\ pc' = "inc"
  /\ i' = i + 1
  /\ UNCHANGED <<bodies, params, ff, positions_masses, done, force_calls,
                 phases, step_start, entry, observed, harness>>

\* pb.inc(1) and the loop head.
NextIteration ==
  /\ pc = "inc"
  /\ pc' = LoopHead(i)
  /\ UNCHANGED <<bodies, i, params, ff, positions_masses, done, force_calls,
                 phases, step_start, entry, observed, harness>>

\* After the loop: main returns Ok(()).
Finish ==
  /\ pc = "exit"
  /\ pc' = "done"
  /\ UNCHANGED <<bodies, i, params, ff, positions_masses, done, force_calls,
                 phases, step_start, entry, observed, harness>>

Step ==
  \/ ForceRefresh
  \/ \E k \in 1..Len(bodies) : Worker(k)
  \/ Join
  \/ Kick1
  \/ Drift
  \/ Kick2
  \/ PlotXY
  \/ PlotXZ
  \/ PlotYZ
  \/ NoPlot
  \/ NextIteration

Next == InitialForce \/ Step \/ Finish

Spec == Init /\ [][Next]_vars


-----------------------------------------------------------------------------
(* One call of update_accelerations on any body set and softening factor *)

InitForce ==
  \E bs \in AnyBodySets : \E eps \in {0, 1} : Start(bs, MaxSteps, eps)

NextForce == InitialForce \/ (\E k \in 1..Len(bodies) : Worker(k)) \/ Join

SpecForce == InitForce /\ [][NextForce]_vars

\* The call has returned.
Returned == ff = "idle" /\ force_calls = 1

-----------------------------------------------------------------------------
(* A run of N steps with dt followed by N steps with -dt *)

InitRev ==
  \E bs \in LoadedBodySets : \E n \in 0..MaxRevSteps : Start(bs, n, 1)

\* After the forward leg the loop is entered again with the step negated.
Turn ==
  /\ pc = "exit"
  /\ leg = "fwd"
  /\ leg' = "bwd"
  /\ dt' = FNeg(dt)
  /\ i' = 0
  /\ pc' = LoopHead(0)
  /\ UNCHANGED <<bodies, time_steps, softening_factor, ff, positions_masses,
                 done, force_calls, phases, step_start, entry, observed, lf,
                 lf_for, initial>>

NextRev == InitialForce \/ Step \/ Turn

SpecRev == InitRev /\ [][NextRev]_vars

-----------------------------------------------------------------------------
(* leapfrog_integrator called at the start of a step, beside the main loop *)

InitStep == \E bs \in LoadedBodySets : Start(bs, MaxRevSteps, 1)

\* leapfrog_integrator(&mut lf, dt) on a copy of the body set.
LeapfrogCall ==
  /\ pc = "kick1"
  /\ lf_for < i
  /\ lf' = leapfrog_integrator(bodies, dt)
  /\ lf_for' = i
  /\ UNCHANGED <<bodies, pc, i, params, ff, positions_masses, done,
                 force_calls, phases, step_start, entry, observed, leg, initial>>

NextStep == InitialForce \/ Step \/ Finish \/ LeapfrogCall

SpecStep == InitStep /\ [][NextStep]_vars

-----------------------------------------------------------------------------
(* Properties *)

Bodies == 1..Len(bodies)

\* The acceleration the force computation yields for body k of body set bs.
ForceOn(bs, k, eps) ==
  total_acceleration(bs[k].position, Snapshot(bs), Len(bs), softening_sq(eps))

\* The velocity of body b after a half-kick with its own acceleration.
HalfKicked(b) == VAdd(b.velocity, VScale(b.acceleration, FDiv(dt, 2)))

KDK == <<"kick", "drift", "force", "kick">>

IsPrefix(s, t) == Len(s) <= Len(t) /\ s = SubSeq(t, 1, Len(s))

Observing == pc \in {"observe", "plot_xz", "plot_yz"}

\* C1: in every step the phases run in the order half-kick, drift, one force
\* refresh, half-kick, each over all bodies: after the second half-kick every
\* position is the start position drifted with the half-kicked velocity, every
\* acceleration is the force at the drifted positions and every velocity is
\* the half-kicked velocity kicked with that acceleration; the force
\* computation has then run exactly once in each step so far.
C1_PhaseOrder ==
  /\ IsPrefix(phases, KDK)
  /\ pc = "drift" => phases = <<"kick">> /\ force_calls = i + 1
  /\ pc = "force" => phases = <<"kick", "drift">>
  /\ pc = "kick2" => phases = <<"kick", "drift", "force">> /\ force_calls = i + 2
  /\ Observing =>
       /\ phases = KDK
       /\ force_calls = i + 2
       /\ Len(bodies) = Len(step_start)
       /\ \A k \in Bodies :
            /\ bodies[k].position =
                 VAdd(step_start[k].position, VScale(HalfKicked(step_start[k]), dt))
            /\ bodies[k].acceleration = ForceOn(bodies, k, softening_factor)
            /\ bodies[k].velocity =
                 VAdd(HalfKicked(step_start[k]),
                      VScale(bodies[k].acceleration, FDiv(dt, 2)))

C1_Witness ==
  /\ pc = "observe"
  /\ i = 1
  /\ \E k \in Bodies :
       /\ bodies[k].acceleration # step_start[k].acceleration
       /\ bodies[k].position # step_start[k].position

\* C2: whenever a step is about to make its first half-kick, step 0 included,
\* the force computation has run once before step 0 and once per earlier
\* step, and every body's acceleration is the force at the current positions
\* and masses.
C2_ConsistentAtKick ==
  pc = "kick1" =>
    /\ ff = "idle"
    /\ force_calls = i + 1
    /\ \A k \in Bodies :
         bodies[k].acceleration = ForceOn(bodies, k, softening_factor)

C2_Witness ==
  /\ pc = "kick1"
  /\ i = 0
  /\ force_calls = 1
  /\ \E k \in Bodies : bodies[k].acceleration # ZERO

\* C3 as stated: main ends only after exactly time_steps iterations and
\* time_steps + 1 force computations, whatever the plot calls return.
C3_Original ==
  pc \in {"done", "failed"} => i = time_steps /\ force_calls = time_steps + 1

\* The steps main has left at most: a measure of the remaining run.
Remaining ==
  LET W == Len(bodies) + 10
      force_left == IF ff = "idle" THEN Len(bodies) + 2
                    ELSE Len(bodies) - Cardinality(done) + 1
      here == CASE pc = "init_force" -> W + force_left
                [] pc = "kick1" -> Len(bodies) + 9
                [] pc = "drift" -> Len(bodies) + 8
                [] pc = "force" -> 5 + force_left
                [] pc = "kick2" -> 5
                [] pc = "observe" -> 4
                [] pc = "plot_xz" -> 3
                [] pc = "plot_yz" -> 2
                [] pc = "inc" -> W
                [] pc = "exit" -> 1
                [] OTHER -> 0
  IN  (time_steps - i) * W + here

\* C3 amended: the loop is left after exactly time_steps iterations and
\* time_steps + 1 force computations, or earlier by the error of a plot call
\* of a step that is a multiple of plot_interval; nothing else ends the run,
\* and the run cannot go on forever: every step of main lowers a measure that
\* is never negative.
C3_Amended ==
  /\ [](/\ i <= time_steps
        /\ Remaining >= 0
        /\ pc \in {"exit", "done"} =>
             i = time_steps /\ force_calls = time_steps + 1
        /\ pc = "failed" =>
             /\ i < time_steps
             /\ i % plot_interval = 0
             /\ force_calls = i + 2
             /\ observed # <<>>
             /\ ~observed[Len(observed)].ok
             /\ observed[Len(observed)].step = i)
  /\ [][Remaining' < Remaining]_vars

C3_Witness ==
  /\ pc = "done"
  /\ i = time_steps
  /\ \A n \in 1..Len(observed) : observed[n].ok

\* C4: a call of update_accelerations leaves the length and order of the body
\* set and every mass, position and velocity as they were, and on return every
\* acceleration is the force at the entry positions and masses, whatever the
\* acceleration was before.
C4_Frame ==
  /\ Len(bodies) = Len(entry)
  /\ \A k \in Bodies :
       /\ bodies[k].mass = entry[k].mass
       /\ bodies[k].position = entry[k].position
       /\ bodies[k].velocity = entry[k].velocity
  /\ Returned =>
       \A k \in Bodies : bodies[k].acceleration = ForceOn(entry, k, softening_factor)

C4_Witness ==
  /\ Returned
  /\ \E k \in Bodies :
       /\ entry[k].acceleration # ZERO
       /\ bodies[k].acceleration # entry[k].acceleration
       /\ bodies[k].acceleration # ZERO

\* The acceleration computed from the snapshot of the running call.
FromSnapshot(k) ==
  total_acceleration(positions_masses[k][1], positions_masses,
                     Len(positions_masses), softening_sq(softening_factor))

\* C5: inside a call each worker step changes nothing but the acceleration of
\* its own body, which it computes from the snapshot; whatever the order of
\* the workers, the accelerations written are those of the snapshot, and when
\* a half-kick is about to read them every worker of the call has finished.
C5_Interleaving ==
  /\ [](ff = "running" =>
          /\ positions_masses = Snapshot(bodies)
          /\ \A k \in done : bodies[k].acceleration = FromSnapshot(k))
  /\ [](pc \in {"kick1", "kick2"} /\ ff = "idle" =>
          /\ done = Bodies
          /\ \A k \in Bodies : bodies[k].acceleration = FromSnapshot(k))
  /\ [][ff = "running" /\ ff' = "running" =>
          \E k \in Bodies \ done :
            /\ done' = done \cup {k}
            /\ positions_masses' = positions_masses
            /\ bodies' = [bodies EXCEPT ![k].acceleration = FromSnapshot(k)]]_vars

C5_Witness ==
  /\ ff = "running"
  /\ pc = "force"
  /\ done = {2}
  /\ bodies[2].acceleration # entry[2].acceleration
  /\ bodies[1].acceleration # FromSnapshot(1)

\* C6 as stated: one call of leapfrog_integrator at the start of a step yields
\* the body set of one iteration of the main loop.
C6_Original == pc = "observe" /\ lf_for = i => lf = bodies

\* C6 amended: leapfrog_integrator makes only the first half-kick and the
\* drift; it neither refreshes the accelerations nor makes the second
\* half-kick, and one iteration of the main loop equals leapfrog_integrator
\* followed by update_accelerations and the second half-kick.
C6_Amended ==
  pc = "observe" /\ lf_for = i =>
    /\ Len(lf) = Len(bodies)
    /\ \A k \in Bodies :
         /\ lf[k].position = bodies[k].position
         /\ lf[k].velocity = HalfKicked(step_start[k])
         /\ lf[k].acceleration = step_start[k].acceleration
         /\ lf[k].mass = bodies[k].mass
    /\ Kick(update_accelerations(lf, softening_factor), dt) = bodies

C6_Witness ==
  /\ pc = "observe"
  /\ lf_for = i
  /\ lf # bodies
  /\ \E k \in Bodies : lf[k].position # initial[k].position

\* Bodies j and k are distinct bodies at the same position.
Coincident(j, k) == j # k /\ entry[j].position = entry[k].position

\* The snapshot without entry j.
Without(pm, j) == SubSeq(pm, 1, j - 1) \o SubSeq(pm, j + 1, Len(pm))

CallsOf(s) == SelectSeq(observed, LAMBDA o : o.step = s)

\* The body set is past the second half-kick of step s and main is done with
\* the plots of that step.
Passed(s) == s < i \/ (s = i /\ pc = "failed")

\* C8 as stated: after every completed step that is a multiple of
\* plot_interval the three plots have been called, and after every other
\* step none.
C8_Original ==
  \A s \in 0..i :
    Passed(s) => Len(CallsOf(s)) = IF s % plot_interval = 0 THEN 3 ELSE 0

\* C8 amended: plots are called only for steps that are multiples of
\* plot_interval, and for each such step in the order xy, xz, yz, each one only
\* after the one before returned Ok: the first plot error ends main.  Every
\* call gets the body set left by the step's second half-kick, and the calls
\* leave the body set as it is.
C8_Amended ==
  /\ \A n \in 1..Len(observed) :
       /\ observed[n].step % plot_interval = 0
       /\ observed[n].step <= i
  /\ \A s \in 0..i :
       LET calls == CallsOf(s)
       IN  /\ s % plot_interval # 0 => calls = <<>>
           /\ Len(calls) <= 3
           /\ \A n \in 1..Len(calls) :
                /\ calls[n].axes = <<"xy", "xz", "yz">>[n]
                /\ calls[n].snapshot = calls[1].snapshot
                /\ n < Len(calls) => calls[n].ok
           /\ s < i /\ s % plot_interval = 0 => Len(calls) = 3 /\ calls[3].ok
  /\ pc = "observe" => CallsOf(i) = <<>>
  /\ pc = "plot_xz" => Len(CallsOf(i)) = 1 /\ CallsOf(i)[1].ok
  /\ pc = "plot_yz" => Len(CallsOf(i)) = 2 /\ CallsOf(i)[2].ok
  /\ pc = "failed" => CallsOf(i) # <<>> /\ ~CallsOf(i)[Len(CallsOf(i))].ok
  /\ pc \in {"plot_xz", "plot_yz", "failed"} =>
       /\ observed[Len(observed)].step = i
       /\ observed[Len(observed)].snapshot = bodies
       /\ phases = KDK
       /\ bodies = Kick(update_accelerations(
                          DriftAll(Kick(step_start, dt), dt), softening_factor), dt)
  /\ pc = "inc" /\ observed # <<>> /\ observed[Len(observed)].step = i - 1 =>
       observed[Len(observed)].snapshot = bodies

C8_Witness ==
  /\ pc = "observe"
  /\ i = plot_interval
  /\ Len(observed) = 3
  /\ bodies # observed[3].snapshot

\* C9: after N steps with dt followed by N steps with -dt every body is back
\* at its initial position with its initial velocity, for every N >= 0.
C9_TimeReversal ==
  pc = "exit" /\ leg = "bwd" =>
    /\ Len(bodies) = Len(initial)
    /\ \A k \in Bodies :
         /\ bodies[k].position = initial[k].position
         /\ bodies[k].velocity = initial[k].velocity

C9_Witness ==
  /\ pc = "exit"
  /\ leg = "bwd"
  /\ time_steps = MaxRevSteps
  /\ observed # <<>>
  /\ \E k \in Bodies :
       /\ observed[1].snapshot[k].position # initial[k].position
       /\ observed[1].snapshot[k].velocity # initial[k].velocity

\* What entry j adds to body k when it is not skipped.
Term(k, j) ==
  Contribution(entry[k].position, entry[j].position, entry[j].mass,
               softening_sq(softening_factor))

RECURSIVE SumByPosition(_, _)
\* The sum, in index order, of the terms of the entries j <= n whose position
\* differs from body k's.
SumByPosition(k, n) ==
  IF n = 0 THEN ZERO
  ELSE IF entry[n].position # entry[k].position
       THEN VAdd(SumByPosition(k, n - 1), Term(k, n))
       ELSE SumByPosition(k, n - 1)

RECURSIVE SumByIndex(_, _)
\* The sum, in index order, of the terms of the entries j <= n with j # k.
SumByIndex(k, n) ==
  IF n = 0 THEN ZERO
  ELSE IF n # k
       THEN VAdd(SumByIndex(k, n - 1), Term(k, n))
       ELSE SumByIndex(k, n - 1)

\* C10: entry j contributes to body k exactly when its position differs from
\* body k's; a body does not contribute to itself, coincident bodies do not
\* contribute to each other, with pairwise distinct positions the result is
\* the sum over all j # k, and with at most one body it is zero.
C10_SkipByPosition ==
  Returned =>
    \A k \in Bodies :
      /\ bodies[k].acceleration =
           SumByPosition(k, Len(entry))
      /\ (\A a, b \in Bodies : a # b => entry[a].position # entry[b].position) =>
           bodies[k].acceleration = SumByIndex(k, Len(entry))
      /\ Len(bodies) <= 1 => bodies[k].acceleration = ZERO

C10_Witness ==
  /\ Returned
  /\ \E j, k \in Bodies :
       /\ entry[j].position[1] = entry[k].position[1]
       /\ entry[j].position # entry[k].position
       /\ bodies[k].acceleration # ZERO

=============================================================================
